---- MODULE Spec2Model ----
(***************************************************************************)
(* Model of InsertCommand::execute (sql_engine/src/dml/insert.rs): the     *)
(* execution of one INSERT ... VALUES statement per session against a     *)
(* storage frontend shared behind one mutex.                               *)
(***************************************************************************)
EXTENDS Integers, Sequences, FiniteSets, TLC

\* ------------------------------------------------------------------ bounds
MaxLines == 2      \* value-list lines per statement
MaxCols  == 2      \* names in an explicit column list
MaxDDL   == 1      \* schema/table changes made by other sessions

Sessions == {1, 2}
NoSession == 0

\* The failures a storage call can give (kernel::SystemError), and none.
BackendErrors == {"error_1", "error_2"}
NoError == "-"

\* ------------------------------------------------------------------ text
\* Text is a sequence of one-character strings, so that to_string and the
\* constraints' parsing are computed rather than assumed.
Digits == <<"0", "1", "2", "3", "4", "5", "6", "7", "8", "9">>

RECURSIVE NatToText(_)
NatToText(n) ==
    IF n < 10 THEN <<Digits[n + 1]>>
    ELSE Append(NatToText(n \div 10), Digits[(n % 10) + 1])

\* BigDecimal::to_string of an integral number.
NumToText(n) == IF n < 0 THEN <<"-">> \o NatToText(0 - n) ELSE NatToText(n)

BoolToText(b) == IF b THEN <<"t", "r", "u", "e">> ELSE <<"f", "a", "l", "s", "e">>

IsDigit(c) == \E i \in 1..10 : Digits[i] = c
DigitVal(c) == (CHOOSE i \in 1..10 : Digits[i] = c) - 1

RECURSIVE TextToNat(_)
TextToNat(t) ==
    IF Len(t) = 0 THEN 0
    ELSE 10 * TextToNat(SubSeq(t, 1, Len(t) - 1)) + DigitVal(t[Len(t)])

AllDigits(t) == Len(t) > 0 /\ \A i \in 1..Len(t) : IsDigit(t[i])

\* str::parse::<integer>: an optional sign followed by digits.
IsIntText(t) ==
    \/ AllDigits(t)
    \/ Len(t) > 1 /\ t[1] = "-" /\ AllDigits(Tail(t))
TextToInt(t) == IF t[1] = "-" THEN 0 - TextToNat(Tail(t)) ELSE TextToNat(t)

\* bool::from_str accepts exactly "true" and "false".
BoolFromStr(t) ==
    IF t = BoolToText(TRUE) THEN [ok |-> TRUE, val |-> TRUE]
    ELSE IF t = BoolToText(FALSE) THEN [ok |-> TRUE, val |-> FALSE]
    ELSE [ok |-> FALSE, val |-> FALSE]

\* ------------------------------------------------------------------ values
\* sqlparser::ast::Value, restricted to the literal kinds used below.
Number(n)             == [type |-> "Number", num |-> n, str |-> <<>>, bool |-> FALSE]
SingleQuotedString(t) == [type |-> "SingleQuotedString", num |-> 0, str |-> t, bool |-> FALSE]
Boolean(b)            == [type |-> "Boolean", num |-> 0, str |-> <<>>, bool |-> b]
Null                  == [type |-> "Null", num |-> 0, str |-> <<>>, bool |-> FALSE]

\* sqlparser::ast::Expr as a closed variant: Value, Cast, UnaryOp, BinaryOp
\* and Identifier (standing for every other shape).
ExprValue(v)        == [shape |-> "Value", value |-> v, data_type |-> "-", op |-> "-", right |-> Null]
ExprCast(v, ty)     == [shape |-> "Cast", value |-> v, data_type |-> ty, op |-> "-", right |-> Null]
ExprUnaryOp(o, v)   == [shape |-> "UnaryOp", value |-> v, data_type |-> "-", op |-> o, right |-> Null]
ExprBinaryOp(l, o, r) == [shape |-> "BinaryOp", value |-> l, data_type |-> "-", op |-> o, right |-> r]
ExprIdentifier      == [shape |-> "Identifier", value |-> Null, data_type |-> "-", op |-> "-", right |-> Null]

\* ------------------------------------------------------------------ scalar resolver
\* ExpressionEvaluation::eval, the external evaluator of binary operators:
\* a value on success, Err(()) on failure (it has then reported to the client).
Eval(expr) ==
    IF expr.value.type = "Number" /\ expr.right.type = "Number" /\ expr.op = "Plus"
    THEN [ok |-> TRUE, value |-> Number(expr.value.num + expr.right.num)]
    ELSE [ok |-> FALSE, value |-> Null]

Resolved(v)    == [status |-> "ok", value |-> v, cause |-> "-"]
SyntaxErr(c)   == [status |-> "syntax", value |-> Null, cause |-> c]
ResolverPanic  == [status |-> "panic", value |-> Null, cause |-> "-"]
EvalFailedIgnored == [status |-> "ok", value |-> Null, cause |-> "-"]

\* insert.rs:112: Err(()) => return Ok(())
EvalFailed     == [status |-> "evalfail", value |-> Null, cause |-> "-"]

\* insert.rs:84-86: Value::Boolean(bool::from_str(v).unwrap())
CastStringToBool(t) ==
    IF BoolFromStr(t).ok THEN Resolved(Boolean(BoolFromStr(t).val))
    ELSE ResolverPanic

\* insert.rs:80-120: one cell of a value-list line.
ResolveCell(expr) ==
    CASE expr.shape = "Value" -> Resolved(expr.value)
      [] expr.shape = "Cast" ->
            IF expr.value.type = "Boolean" /\ expr.data_type = "Boolean"
            THEN Resolved(Boolean(expr.value.bool))
            ELSE IF expr.value.type = "SingleQuotedString" /\ expr.data_type = "Boolean"
            THEN CastStringToBool(expr.value.str)
            ELSE SyntaxErr("cast")
      [] expr.shape = "UnaryOp" ->
            IF expr.op = "Minus" /\ expr.value.type = "Number"
            THEN Resolved(Number(0 - expr.value.num))
            ELSE SyntaxErr("unary")
      [] expr.shape = "BinaryOp" ->
            IF Eval(expr).ok THEN Resolved(Eval(expr).value) ELSE EvalFailed
      [] OTHER -> SyntaxErr("expression")

\* insert.rs:78-123: the cells of one line in order, stopping at the first
\* cell that does not resolve. `cells` counts the cells looked at.
RECURSIVE ResolveFrom(_, _, _)
ResolveFrom(line, i, row) ==
    IF i > Len(line) THEN [status |-> "ok", row |-> row, cause |-> "-", cells |-> Len(line)]
    ELSE LET r == ResolveCell(line[i]) IN
         IF r.status = "ok" THEN ResolveFrom(line, i + 1, Append(row, r.value))
         ELSE [status |-> r.status, row |-> row, cause |-> r.cause, cells |-> i]

ResolveLine(line) == ResolveFrom(line, 1, <<>>)

\* ------------------------------------------------------------------ columns and constraints
SmallIntMin == 0 - 32768
SmallIntMax == 32767

\* storage::ColumnDefinition: name and SQL type (with its length, for char).
ColumnDefinition(n, t, l) == [name |-> n, sql_type |-> t, len |-> l]

\* The table the statements target: t(a smallint, b char(1)).
TableColumnDefs == <<ColumnDefinition("a", "SmallInt", 0), ColumnDefinition("b", "Char", 1)>>

ColumnNames == {"a", "b", "z"}

HasName(cd, n) == cd.name = n

ConstraintOk == [ok |-> TRUE, kind |-> "-", value |-> <<>>, len |-> 0]
OutOfRange == [ok |-> FALSE, kind |-> "OutOfRange", value |-> <<>>, len |-> 0]
TypeMismatch(t) == [ok |-> FALSE, kind |-> "TypeMismatch", value |-> t, len |-> 0]
ValueTooLong(l) == [ok |-> FALSE, kind |-> "ValueTooLong", value |-> <<>>, len |-> l]

\* sql_types: SqlType::constraint().validate(text).
Validate(cd, text) ==
    IF cd.sql_type = "SmallInt"
    THEN IF ~IsIntText(text) THEN TypeMismatch(text)
         ELSE IF TextToInt(text) < SmallIntMin \/ TextToInt(text) > SmallIntMax
              THEN OutOfRange
              ELSE ConstraintOk
    ELSE IF Len(text) > cd.len THEN ValueTooLong(cd.len) ELSE ConstraintOk

\* insert.rs:204-209: the textual form handed to the constraint; only
\* numbers, quoted strings and booleans have one.
HasText(item) == item.type \in {"Number", "SingleQuotedString", "Boolean"}
ValueToText(item) ==
    CASE item.type = "Number" -> NumToText(item.num)
      [] item.type = "SingleQuotedString" -> item.str
      [] OTHER -> BoolToText(item.bool)

\* representation::Datum: Datum::from_null() and Datum::try_from(&Value).
DatumNull == [datum |-> "Null", num |-> 0, str |-> <<>>, bool |-> FALSE]
DatumFrom(item) ==
    CASE item.type = "Number" -> [datum |-> "Int", num |-> item.num, str |-> <<>>, bool |-> FALSE]
      [] item.type = "SingleQuotedString" -> [datum |-> "String", num |-> 0, str |-> item.str, bool |-> FALSE]
      [] item.type = "Boolean" -> [datum |-> "Bool", num |-> 0, str |-> <<>>, bool |-> item.bool]
      [] OTHER -> DatumNull

\* u64::to_be_bytes: eight bytes, most significant first.
KeyWidth == 8
RECURSIVE BeBytes(_, _)
BeBytes(n, w) == IF w = 0 THEN <<>> ELSE Append(BeBytes(n \div 256, w - 1), n % 256)
ToBeBytes(n) == BeBytes(n, KeyWidth)

RECURSIVE FromBeBytes(_)
FromBeBytes(b) ==
    IF Len(b) = 0 THEN 0 ELSE 256 * FromBeBytes(SubSeq(b, 1, Len(b) - 1)) + b[Len(b)]

\* ------------------------------------------------------------------ column mapper
\* insert.rs:61-73: the names of the statement's column identifiers.
RECURSIVE IdentValues(_)
IdentValues(idents) ==
    IF Len(idents) = 0 THEN <<>> ELSE <<Head(idents).value>> \o IdentValues(Tail(idents))

\* insert.rs:157-163: the first table position whose column has the name
\* (positions are counted from 1 here, from 0 in the code); 0 when none has.
RECURSIVE FindColumn(_, _, _)
FindColumn(all, name, i) ==
    IF i > Len(all) THEN 0
    ELSE IF HasName(all[i], name) THEN i
    ELSE FindColumn(all, name, i + 1)

IndexCol(i, cd) == [index |-> i, column |-> cd]

\* insert.rs:154-171: the listed names in listed order, each matched or
\* collected as non-existing.
RECURSIVE MapNames(_, _, _, _)
MapNames(names, all, index_cols, non_existing_cols) ==
    IF Len(names) = 0
    THEN [index_cols |-> index_cols, non_existing_cols |-> non_existing_cols]
    ELSE LET found == FindColumn(all, Head(names), 1) IN
         IF found # 0
         THEN MapNames(Tail(names), all, Append(index_cols, IndexCol(found, all[found])),
                       non_existing_cols)
         ELSE MapNames(Tail(names), all, index_cols, Append(non_existing_cols, Head(names)))

\* insert.rs:146-183
IndexColumns(column_names, all) ==
    IF Len(column_names) = 0
    THEN [index_cols |-> [i \in 1..Len(all) |-> IndexCol(i, all[i])],
          non_existing_cols |-> <<>>]
    ELSE MapNames(column_names, all, <<>>, <<>>)

\* ------------------------------------------------------------------ row materializer and validator
Min(a, b) == IF a < b THEN a ELSE b

Violation(err, cd, row_no) ==
    [kind |-> err.kind, value |-> err.value, len |-> err.len,
     column |-> cd.name, row_index |-> row_no]

\* insert.rs:202-218: the cells of a row zipped with the mapping; a cell
\* without a textual form hits unimplemented!().
RECURSIVE BuildRecord(_, _, _, _, _)
BuildRecord(row, index_cols, i, record, errors) ==
    IF i > Min(Len(row), Len(index_cols))
    THEN [panic |-> FALSE, record |-> record, errors |-> errors]
    ELSE IF ~HasText(row[i])
    THEN [panic |-> TRUE, record |-> record, errors |-> errors]
    ELSE LET cd == index_cols[i].column
             res == Validate(cd, ValueToText(row[i]))
         IN  IF res.ok
             THEN BuildRecord(row, index_cols, i + 1,
                              [record EXCEPT ![index_cols[i].index] = DatumFrom(row[i])], errors)
             ELSE BuildRecord(row, index_cols, i + 1, record,
                              Append(errors, [err |-> res, column |-> cd]))

\* insert.rs:253-255: every collected error mapped with row_index + 1.
ViolationsOf(errors, row_index) ==
    [i \in 1..Len(errors) |-> Violation(errors[i].err, errors[i].column, row_index + 1)]

TooWideByTwo(row, all) == Len(row) > Len(all) + 1

\* insert.rs:190
TooWide(row, all) == Len(row) > Len(all)

\* insert.rs:262: (Binary::with_data(key), Binary::pack(&record))
Record(k, record) == [key |-> k, values |-> record]

\* ------------------------------------------------------------------ client messages
Msg(k, who, d, ns, vs, n) ==
    [kind |-> k, by |-> who, detail |-> d, names |-> ns, violations |-> vs, size |-> n]

SyntaxError(d)             == Msg("SyntaxError", "core", d, <<>>, <<>>, 0)
EvaluatorError             == Msg("SyntaxError", "evaluator", "binary", <<>>, <<>>, 0)
FeatureNotSupported        == Msg("FeatureNotSupported", "core", "-", <<>>, <<>>, 0)
SchemaDoesNotExist         == Msg("SchemaDoesNotExist", "core", "-", <<>>, <<>>, 0)
TableDoesNotExist          == Msg("TableDoesNotExist", "core", "-", <<>>, <<>>, 0)
ColumnDoesNotExist(ns)     == Msg("ColumnDoesNotExist", "core", "-", ns, <<>>, 0)
TooManyInsertExpressions   == Msg("TooManyInsertExpressions", "core", "-", <<>>, <<>>, 0)
ConstraintViolations(vs)   == Msg("ConstraintViolations", "core", "-", <<>>, vs, 0)
RecordsInserted(n)         == Msg("RecordsInserted", "core", "-", <<>>, <<>>, n)

IsError(m) == m.kind # "RecordsInserted"

\* ------------------------------------------------------------------ statements
\* query::plan::TableInserts: the column identifiers and the query body.
Ident(n) == [value |-> n]
Statement(cols, lines) == [body |-> "Values", column_indices |-> cols, values |-> lines]
\* A body that is not a value list (INSERT ... SELECT).
OtherStatement == [body |-> "Select", column_indices |-> <<>>, values |-> <<>>]
NoStatement == [body |-> "-", column_indices |-> <<>>, values |-> <<>>]

One      == ExprValue(Number(1))
Big      == ExprValue(Number(40000))
StrX     == ExprValue(SingleQuotedString(<<"x">>))
NullLit  == ExprValue(Null)
CastTrue == ExprCast(SingleQuotedString(<<"t", "r", "u", "e">>), "Boolean")
CastAbc  == ExprCast(SingleQuotedString(<<"a", "b", "c">>), "Boolean")
CastInt  == ExprCast(Number(1), "Int")
MinusOne == ExprUnaryOp("Minus", Number(1))
NotOne   == ExprUnaryOp("Not", Number(1))
MinusStr == ExprUnaryOp("Minus", SingleQuotedString(<<"x">>))
BinOk    == ExprBinaryOp(Number(1), "Plus", Number(1))
BinFail  == ExprBinaryOp(Number(1), "Plus", SingleQuotedString(<<"x">>))

\* The value-list lines statements are built from.
LinesSet ==
    { <<One>>, <<One, StrX>>, <<One, MinusOne>>, <<Big>>, <<StrX, Big>>,
      <<One, One, One>>, <<NullLit>>, <<Big, NullLit>>,
      <<MinusOne>>, <<CastTrue>>, <<CastAbc>>, <<CastInt>>, <<NotOne>>, <<MinusStr>>,
      <<BinOk>>, <<BinFail>>, <<BinFail, CastInt>>, <<ExprIdentifier>> }

SeqsUpTo(S, lo, hi) == UNION { [1..k -> S] : k \in lo..hi }

ColumnLists == SeqsUpTo({ Ident(n) : n \in ColumnNames }, 0, MaxCols)

\* Lines that stand beside the line a statement is about: a valid one, one
\* with a violation, one wider than the table, one that does not resolve.
FillerLines == { <<One, StrX>>, <<Big>>, <<One, One, One>>, <<CastInt>> }

\* Up to MaxLines lines, at most one of them not a filler line.
Bodies ==
    { v \in SeqsUpTo(LinesSet, 1, MaxLines) :
        Cardinality({ i \in 1..Len(v) : v[i] \notin FillerLines }) <= 1 }

Stmts == { Statement(c, v) : c \in ColumnLists, v \in Bodies } \cup {OtherStatement}

\* The statements of the sessions that run concurrently.
ConcLinesSet == { <<One>>, <<MinusOne>> }
StmtsConc ==
    { Statement(<<>>, << <<One>> >> \o v) :
        v \in SeqsUpTo(ConcLinesSet, MaxLines - 1, MaxLines - 1) }
        \cup { Statement(<<>>, << <<Big>> >>) }

\* ------------------------------------------------------------------ state
VARIABLES
    stmt,              \* per session: table_inserts
    pc,                \* per session: position in execute()
    rows,              \* per session: the resolved rows (insert.rs:76)
    all_columns,       \* per session: insert.rs:145
    index_columns,     \* per session: insert.rs:146
    to_write,          \* per session: insert.rs:185
    row_index,         \* per session: insert.rs:189 (rows already processed)
    key,               \* per session: insert.rs:199
    size,              \* per session: the count insert_into returned
    msgs,              \* per session: what the client sink received, in order
    schema_ex,         \* storage: the target schema exists
    table_ex,          \* storage: the target table exists
    table_rows,        \* storage: the records of the target table
    key_id_generator,  \* storage: the surrogate key counter
    lock,              \* the session holding the storage mutex, or NoSession
    ddl,               \* schema/table changes made so far by other sessions
    inserted,          \* history, per session: the batches handed to insert_into
    key_log,           \* history: every value next_key_id returned, in order
    calls,             \* history, per session: the storage calls made and their results
    returned,          \* per session: the failure execute() returned, if any
    cells_seen         \* history, per session: the number of cells the resolver looked at

vars == <<stmt, pc, rows, all_columns, index_columns, to_write, row_index, key, size,
          msgs, schema_ex, table_ex, table_rows, key_id_generator, lock, ddl,
          inserted, key_log, calls, returned, cells_seen>>

locals  == <<rows, all_columns, index_columns, to_write, row_index, key, size>>
storage == <<schema_ex, table_ex, table_rows, key_id_generator>>
history == <<inserted, key_log, calls, returned, cells_seen>>

Terminal == {"done_ok", "done_err", "panicked", "idle"}

InitStorage ==
    /\ schema_ex \in BOOLEAN
    /\ table_ex \in BOOLEAN
    /\ table_ex => schema_ex
    /\ table_rows = <<>>
    /\ key_id_generator = 0
    /\ lock = NoSession
    /\ ddl = 0

InitLocals ==
    /\ rows = [s \in Sessions |-> <<>>]
    /\ all_columns = [s \in Sessions |-> <<>>]
    /\ index_columns = [s \in Sessions |-> <<>>]
    /\ to_write = [s \in Sessions |-> <<>>]
    /\ row_index = [s \in Sessions |-> 0]
    /\ key = [s \in Sessions |-> <<>>]
    /\ size = [s \in Sessions |-> 0]
    /\ msgs = [s \in Sessions |-> <<>>]
    /\ inserted = [s \in Sessions |-> <<>>]
    /\ key_log = <<>>
    /\ calls = [s \in Sessions |-> <<>>]
    /\ returned = [s \in Sessions |-> NoError]
    /\ cells_seen = [s \in Sessions |-> 0]

\* One session executes one statement; the other has none.
Init ==
    /\ \E st \in Stmts : stmt = [s \in Sessions |-> IF s = 1 THEN st ELSE NoStatement]
    /\ pc = [s \in Sessions |-> IF s = 1 THEN "start" ELSE "idle"]
    /\ InitStorage
    /\ InitLocals

\* Every session executes a statement.
InitConc ==
    /\ stmt \in [Sessions -> StmtsConc]
    /\ pc = [s \in Sessions |-> "start"]
    /\ InitStorage
    /\ InitLocals

\* ------------------------------------------------------------------ execute()
Go(s, label) == pc' = [pc EXCEPT ![s] = label]
Call(s, op, res) == calls' = [calls EXCEPT ![s] = Append(@, [op |-> op, res |-> res])]

PropagateOther(error) == CHOOSE e \in BackendErrors : e # error

\* insert.rs:145 (`?`) and 267 (`Err(error) => Err(error)`): the failure of
\* the storage call is what execute() returns.
Propagate(error) == error
Send(s, m)   == msgs' = [msgs EXCEPT ![s] = Append(@, m)]

\* insert.rs:53-76 and 276-283: only a value-list body is executed.
Start(s) ==
    /\ pc[s] = "start"
    /\ IF stmt[s].body = "Values"
       THEN Go(s, "resolve") /\ UNCHANGED msgs
       ELSE Go(s, "done_ok") /\ Send(s, FeatureNotSupported)
    /\ UNCHANGED <<stmt, locals, storage, lock, ddl, history>>

\* insert.rs:77-124: the next value-list line is resolved cell by cell;
\* every line is resolved before storage is looked at.
Resolve(s) ==
    /\ pc[s] = "resolve"
    /\ LET r == ResolveLine(stmt[s].values[Len(rows[s]) + 1]) IN
       /\ cells_seen' = [cells_seen EXCEPT ![s] = @ + r.cells]
       /\ CASE r.status = "ok" ->
                 /\ rows' = [rows EXCEPT ![s] = Append(@, r.row)]
                 /\ Go(s, IF Len(rows[s]) + 1 = Len(stmt[s].values)
                          THEN "lock_schema" ELSE "resolve")
                 /\ UNCHANGED msgs
            [] r.status = "syntax" ->
                 /\ Send(s, SyntaxError(r.cause))
                 /\ Go(s, "done_ok")
                 /\ UNCHANGED rows
            [] r.status = "evalfail" ->
                 /\ Send(s, EvaluatorError)
                 /\ Go(s, "done_ok")
                 /\ UNCHANGED rows
            [] OTHER ->
                 /\ Go(s, "panicked")
                 /\ UNCHANGED <<rows, msgs>>
    /\ UNCHANGED <<stmt, all_columns, index_columns, to_write, row_index, key, size,
                   storage, lock, ddl, inserted, key_log, calls, returned>>

\* The storage access each lock() leads to.
AfterLock(label) ==
    CASE label = "lock_schema"  -> "schema_exists"
      [] label = "lock_table"   -> "table_exists"
      [] label = "lock_columns" -> "table_columns"
      [] label = "lock_again"   -> "table_exists_again"
      [] label = "lock_key"     -> "next_key_id"
      [] OTHER                  -> "insert_into"

LockLabels == {"lock_schema", "lock_table", "lock_columns", "lock_again", "lock_key",
               "lock_insert"}

\* self.storage.lock().unwrap() (insert.rs:126, 135, 145, 186, 199, 266):
\* blocks until the mutex is free.
Acquire(s) ==
    /\ pc[s] \in LockLabels
    /\ lock = NoSession
    /\ lock' = s
    /\ Go(s, AfterLock(pc[s]))
    /\ UNCHANGED <<stmt, locals, msgs, storage, ddl, history>>

SchemaExistsFallThrough(s) ==
    /\ pc[s] = "schema_exists"
    /\ lock' = NoSession
    /\ Go(s, "lock_table")
    /\ IF schema_ex THEN UNCHANGED msgs ELSE Send(s, SchemaDoesNotExist)
    /\ Call(s, "schema_exists", "Ok")
    /\ UNCHANGED <<stmt, locals, storage, ddl, inserted, key_log, returned, cells_seen>>

\* insert.rs:126-133
SchemaExists(s) ==
    /\ pc[s] = "schema_exists"
    /\ lock' = NoSession
    /\ IF schema_ex
       THEN Go(s, "lock_table") /\ UNCHANGED msgs
       ELSE Go(s, "done_ok") /\ Send(s, SchemaDoesNotExist)
    /\ Call(s, "schema_exists", "Ok")
    /\ UNCHANGED <<stmt, locals, storage, ddl, inserted, key_log, returned, cells_seen>>

\* insert.rs:135-142
TableExists(s) ==
    /\ pc[s] = "table_exists"
    /\ lock' = NoSession
    /\ IF table_ex
       THEN Go(s, "lock_columns") /\ UNCHANGED msgs
       ELSE Go(s, "done_ok") /\ Send(s, TableDoesNotExist)
    /\ Call(s, "table_exists", "Ok")
    /\ UNCHANGED <<stmt, locals, storage, ddl, inserted, key_log, returned, cells_seen>>

\* FrontendStorage::table_columns: the column definitions, none for a table
\* that does not exist, or a failure of the backend.
StoredColumns == IF table_ex THEN TableColumnDefs ELSE <<>>
ColumnsResults == {"Ok"} \cup BackendErrors

\* insert.rs:144-183: table_columns()? and the column mapping.
TableColumns(s) ==
    /\ pc[s] = "table_columns"
    /\ lock' = NoSession
    /\ \E res \in ColumnsResults :
         /\ Call(s, "table_columns", res)
         /\ IF res # "Ok"
            THEN /\ returned' = [returned EXCEPT ![s] = Propagate(res)]
                 /\ Go(s, "done_err")
                 /\ UNCHANGED <<all_columns, index_columns, msgs>>
            ELSE LET m == IndexColumns(IdentValues(stmt[s].column_indices), StoredColumns) IN
                 /\ all_columns' = [all_columns EXCEPT ![s] = StoredColumns]
                 /\ UNCHANGED returned
                 /\ IF Len(m.non_existing_cols) # 0
                    THEN /\ Send(s, ColumnDoesNotExist(m.non_existing_cols))
                         /\ Go(s, "done_ok")
                         /\ UNCHANGED index_columns
                    ELSE /\ index_columns' = [index_columns EXCEPT ![s] = m.index_cols]
                         /\ Go(s, "lock_again")
                         /\ UNCHANGED msgs
    /\ UNCHANGED <<stmt, rows, to_write, row_index, key, size, storage, ddl,
                   inserted, key_log, cells_seen>>

\* insert.rs:185-186: the rows are processed only if the table still exists.
TableExistsAgain(s) ==
    /\ pc[s] = "table_exists_again"
    /\ lock' = NoSession
    /\ Go(s, IF table_ex THEN "row" ELSE "lock_insert")
    /\ Call(s, "table_exists", "Ok")
    /\ UNCHANGED <<stmt, locals, msgs, storage, ddl, inserted, key_log, returned, cells_seen>>

\* insert.rs:189-197: the head of the row loop and the width check.
RowStart(s) ==
    /\ pc[s] = "row"
    /\ IF row_index[s] = Len(rows[s])
       THEN Go(s, "lock_insert") /\ UNCHANGED <<to_write, msgs>>
       ELSE IF TooWide(rows[s][row_index[s] + 1], all_columns[s])
       THEN /\ to_write' = [to_write EXCEPT ![s] = <<>>]
            /\ Send(s, TooManyInsertExpressions)
            /\ Go(s, "done_ok")
       ELSE Go(s, "lock_key") /\ UNCHANGED <<to_write, msgs>>
    /\ UNCHANGED <<stmt, rows, all_columns, index_columns, row_index, key, size,
                   storage, lock, ddl, history>>

\* FrontendStorage::next_key_id: the counter's value is returned and the
\* counter advanced.
IssuedKeyId == key_id_generator
AdvancedKeyId == key_id_generator + 1

\* insert.rs:199
NextKeyId(s) ==
    /\ pc[s] = "next_key_id"
    /\ lock' = NoSession
    /\ key' = [key EXCEPT ![s] = ToBeBytes(IssuedKeyId)]
    /\ key_id_generator' = AdvancedKeyId
    /\ key_log' = Append(key_log, [session |-> s, id |-> IssuedKeyId])
    /\ Call(s, "next_key_id", "Ok")
    /\ Go(s, "validate")
    /\ UNCHANGED <<stmt, rows, all_columns, index_columns, to_write, row_index, size,
                   msgs, schema_ex, table_ex, table_rows, ddl, inserted, returned, cells_seen>>

RowPassesAlways(errors) == TRUE

\* insert.rs:221: a row is kept only if no violation was collected.
RowPasses(errors) == Len(errors) = 0

PushRecordFront(batch, rec) == <<rec>> \o batch

\* insert.rs:262
PushRecord(batch, rec) == Append(batch, rec)

\* insert.rs:201-263: materialize and validate the row, then either report
\* every violation of the row or keep the encoded record.
ValidateRow(s) ==
    /\ pc[s] = "validate"
    /\ LET row == rows[s][row_index[s] + 1]
           nulls == [i \in 1..Len(all_columns[s]) |-> DatumNull]
           b == BuildRecord(row, index_columns[s], 1, nulls, <<>>)
       IN  IF b.panic
           THEN Go(s, "panicked") /\ UNCHANGED <<to_write, row_index, msgs>>
           ELSE IF ~RowPasses(b.errors)
           THEN /\ Send(s, ConstraintViolations(ViolationsOf(b.errors, row_index[s])))
                /\ Go(s, "done_ok")
                /\ UNCHANGED <<to_write, row_index>>
           ELSE /\ to_write' = [to_write EXCEPT ![s] = PushRecord(@, Record(key[s], b.record))]
                /\ row_index' = [row_index EXCEPT ![s] = @ + 1]
                /\ Go(s, "row")
                /\ UNCHANGED msgs
    /\ UNCHANGED <<stmt, rows, all_columns, index_columns, key, size, storage, lock,
                   ddl, history>>

\* FrontendStorage::insert_into: the whole batch is written to the table and
\* its size returned, or the call fails (always for a table that does not
\* exist).
InsertResults == IF table_ex THEN {"Ok"} \cup BackendErrors ELSE BackendErrors
InsertSucceeds(res) == res = "Ok"
Written(batch) == table_rows \o batch
WrittenCount(batch) == Len(batch)

\* insert.rs:266-268. The guard taken at 266 lives to the end of the match.
InsertInto(s) ==
    /\ pc[s] = "insert_into"
    /\ \E res \in InsertResults :
         /\ inserted' = [inserted EXCEPT ![s] =
                            Append(@, [batch |-> to_write[s], ok |-> InsertSucceeds(res)])]
         /\ Call(s, "insert_into", res)
         /\ IF InsertSucceeds(res)
            THEN /\ table_rows' = Written(to_write[s])
                 /\ size' = [size EXCEPT ![s] = WrittenCount(to_write[s])]
                 /\ Go(s, "send_inserted")
                 /\ UNCHANGED <<lock, returned>>
            ELSE /\ lock' = NoSession
                 /\ returned' = [returned EXCEPT ![s] = Propagate(res)]
                 /\ Go(s, "done_err")
                 /\ UNCHANGED <<table_rows, size>>
    /\ UNCHANGED <<stmt, rows, all_columns, index_columns, to_write, row_index, key,
                   msgs, schema_ex, table_ex, key_id_generator, ddl, key_log, cells_seen>>

\* insert.rs:268-272: the count is reported while the guard is alive.
SendInserted(s) ==
    /\ pc[s] = "send_inserted"
    /\ Send(s, RecordsInserted(size[s]))
    /\ Go(s, "release")
    /\ UNCHANGED <<stmt, locals, storage, lock, ddl, history>>

\* insert.rs:274: the guard of 266 is dropped when the match ends.
Release(s) ==
    /\ pc[s] = "release"
    /\ lock' = NoSession
    /\ Go(s, "done_ok")
    /\ UNCHANGED <<stmt, locals, msgs, storage, ddl, history>>

\* ------------------------------------------------------------------ other sessions
\* Schema and table changes of other sessions, each under the storage mutex.
DropTable ==
    /\ lock = NoSession /\ ddl < MaxDDL /\ table_ex
    /\ table_ex' = FALSE /\ table_rows' = <<>> /\ ddl' = ddl + 1
    /\ UNCHANGED <<stmt, pc, locals, msgs, schema_ex, key_id_generator, lock, history>>

CreateTable ==
    /\ lock = NoSession /\ ddl < MaxDDL /\ schema_ex /\ ~table_ex
    /\ table_ex' = TRUE /\ ddl' = ddl + 1
    /\ UNCHANGED <<stmt, pc, locals, msgs, schema_ex, table_rows, key_id_generator, lock,
                   history>>

DropSchema ==
    /\ lock = NoSession /\ ddl < MaxDDL /\ schema_ex
    /\ schema_ex' = FALSE /\ table_ex' = FALSE /\ table_rows' = <<>> /\ ddl' = ddl + 1
    /\ UNCHANGED <<stmt, pc, locals, msgs, key_id_generator, lock, history>>

CreateSchema ==
    /\ lock = NoSession /\ ddl < MaxDDL /\ ~schema_ex
    /\ schema_ex' = TRUE /\ ddl' = ddl + 1
    /\ UNCHANGED <<stmt, pc, locals, msgs, table_ex, table_rows, key_id_generator, lock,
                   history>>

\* ------------------------------------------------------------------ specifications
Execute(s) ==
    \/ Start(s)
    \/ Resolve(s)
    \/ Acquire(s)
    \/ SchemaExists(s)
    \/ TableExists(s)
    \/ TableColumns(s)
    \/ TableExistsAgain(s)
    \/ RowStart(s)
    \/ NextKeyId(s)
    \/ ValidateRow(s)
    \/ InsertInto(s)
    \/ SendInserted(s)
    \/ Release(s)

Next == \E s \in Sessions : Execute(s)

NextConc ==
    \/ \E s \in Sessions : Execute(s)
    \/ DropTable
    \/ CreateTable
    \/ DropSchema
    \/ CreateSchema

\* One statement, run alone.
Spec == Init /\ [][Next]_vars

\* One statement, run while other sessions change the schema.
SpecDDL == Init /\ [][NextConc]_vars

\* Two statements run concurrently while other sessions change the schema.
SpecConc == InitConc /\ [][NextConc]_vars

\* One statement, run while other sessions change the schema, every
\* session being scheduled as long as it can take a step.
FairSpec == SpecDDL /\ \A s \in Sessions : WF_vars(Execute(s))

TypeOK ==
    /\ pc \in [Sessions -> {"start", "resolve", "schema_exists", "table_exists",
                            "table_columns", "table_exists_again", "row", "next_key_id",
                            "validate", "insert_into", "send_inserted", "release"}
                           \cup LockLabels \cup Terminal]
    /\ lock \in Sessions \cup {NoSession}
    /\ returned \in [Sessions -> BackendErrors \cup {NoError}]
    /\ cells_seen \in [Sessions -> 0..(MaxLines * (MaxCols + 1))]

\* ------------------------------------------------------------------ properties
Running(s)  == pc[s] \notin Terminal
Returned(s) == pc[s] \in {"done_ok", "done_err"}
Ended(s)    == pc[s] \in {"done_ok", "done_err", "panicked"}

Nulls(n) == [i \in 1..n |-> DatumNull]

\* What materializing and validating a resolved row against the session's
\* column mapping gives.
Built(s, row) == BuildRecord(row, index_columns[s], 1, Nulls(Len(all_columns[s])), <<>>)

\* A value-list line that resolves, fits the table and has no violation.
LinePasses(s, line) ==
    LET r == ResolveLine(line) IN
    /\ r.status = "ok"
    /\ Len(r.row) <= Len(all_columns[s])
    /\ ~Built(s, r.row).panic
    /\ Len(Built(s, r.row).errors) = 0

\* The cells of a statement in the order the resolver meets them.
RECURSIVE Flatten(_)
Flatten(lines) == IF Len(lines) = 0 THEN <<>> ELSE Head(lines) \o Flatten(Tail(lines))

\* The first cell that does not resolve is a binary operator the evaluator fails on.
EvaluatorFailedFirst(s) ==
    LET cells == Flatten(stmt[s].values) IN
    \E n \in 1..Len(cells) :
        /\ cells[n].shape = "BinaryOp" /\ ~Eval(cells[n]).ok
        /\ \A m \in 1..(n - 1) : ResolveCell(cells[m]).status = "ok"

ByCore(m) == m.by = "core"
CoreMsgs(s) == SelectSeq(msgs[s], ByCore)

ErrorSent(s) == \E i \in 1..Len(msgs[s]) : IsError(msgs[s][i])

\* The records of a session's statement that are visible in the table.
VisibleOf(s) ==
    { i \in 1..Len(table_rows) :
        \E j \in 1..Len(key_log) :
            key_log[j].session = s /\ ToBeBytes(key_log[j].id) = table_rows[i].key }

\* C1: insert_into receives a non-empty batch only if every value-list line
\* of the statement resolved, fitted the table and passed validation; once an
\* error diagnostic was sent insert_into is never called; and the table holds
\* either none or all of the statement's rows.
C1_BatchAtomicity ==
    \A s \in Sessions :
        /\ \A i \in 1..Len(inserted[s]) :
              inserted[s][i].batch # <<>> =>
                  /\ \A l \in 1..Len(stmt[s].values) : LinePasses(s, stmt[s].values[l])
                  /\ Len(inserted[s][i].batch) = Len(stmt[s].values)
        /\ ErrorSent(s) => inserted[s] = <<>>
        /\ Cardinality(VisibleOf(s)) \in {0, Len(stmt[s].values)}

\* A statement of two lines was committed as one batch of two records.
C1_Witness ==
    \E s \in Sessions :
        /\ pc[s] = "done_ok"
        /\ Len(inserted[s]) = 1
        /\ Len(inserted[s][1].batch) = 2
        /\ Cardinality(VisibleOf(s)) = 2

\* C2 as stated: an execution that returns has sent exactly one message.
C2_ExactlyOneMessage ==
    \A s \in Sessions : Returned(s) => Len(msgs[s]) = 1

\* C2 as amended: execute() itself sends at most one message; when it
\* returns Ok it has sent exactly one, unless the evaluator failed (the core
\* then sends none, the evaluator having reported); when it returns the
\* storage failure it has sent none.
C2_OneMessageUnlessStorageFailure ==
    \A s \in Sessions :
        /\ Len(CoreMsgs(s)) <= 1
        /\ pc[s] = "done_ok" /\ ~EvaluatorFailedFirst(s) => Len(CoreMsgs(s)) = 1
        /\ pc[s] = "done_ok" /\ EvaluatorFailedFirst(s) => Len(CoreMsgs(s)) = 0
        /\ pc[s] = "done_err" => Len(msgs[s]) = 0
        /\ Running(s) /\ pc[s] # "release" => Len(msgs[s]) = 0

\* A statement ended with the storage failure returned and nothing sent, and
\* insert_into had been called.
C2_Witness ==
    \E s \in Sessions :
        pc[s] = "done_err" /\ msgs[s] = <<>> /\ Len(inserted[s]) = 1

\* ---- what a statement asks for, read off the statement and the table
NumCols == Len(TableColumnDefs)

ListedNames(s) == IdentValues(stmt[s].column_indices)

IsColumn(n) == \E p \in 1..NumCols : TableColumnDefs[p].name = n
NotColumn(n) == ~IsColumn(n)
PositionOf(n) == CHOOSE p \in 1..NumCols : TableColumnDefs[p].name = n

\* The listed names that are no column of the table, in listed order.
Unresolved(s) == SelectSeq(ListedNames(s), NotColumn)

\* The table position cell i of a line is meant for; 0 when it has none.
TargetPosition(s, i) ==
    IF Len(ListedNames(s)) = 0 THEN (IF i <= NumCols THEN i ELSE 0)
    ELSE IF i <= Len(ListedNames(s)) /\ IsColumn(ListedNames(s)[i])
         THEN PositionOf(ListedNames(s)[i])
         ELSE 0

AllResolve(s) ==
    \A l \in 1..Len(stmt[s].values) : ResolveLine(stmt[s].values[l]).status = "ok"

RowOf(s, l) == ResolveLine(stmt[s].values[l]).row

\* The cells of line l that have a column and violate its constraint.
ViolatingCells(s, l) ==
    { i \in 1..Len(RowOf(s, l)) :
        /\ TargetPosition(s, i) # 0
        /\ HasText(RowOf(s, l)[i])
        /\ ~Validate(TableColumnDefs[TargetPosition(s, i)], ValueToText(RowOf(s, l)[i])).ok }

\* The cells of line l the row loop cannot turn into text.
CrashingCells(s, l) ==
    { i \in 1..Len(RowOf(s, l)) : TargetPosition(s, i) # 0 /\ ~HasText(RowOf(s, l)[i]) }

WideLine(s, l) == Len(stmt[s].values[l]) > NumCols

\* Line l fails no check.
LineOk(s, l) ==
    ~WideLine(s, l) /\ ViolatingCells(s, l) = {} /\ CrashingCells(s, l) = {}

\* Line l is the first line of the statement that fails a check.
FirstFailing(s, l) == \A k \in 1..(l - 1) : LineOk(s, k)

NothingCommitted(s) == inserted[s] = <<>> /\ VisibleOf(s) = {}

\* C3: a statement whose schema or table does not exist ends with exactly
\* the one diagnostic of that kind, whatever its value lists and column
\* list hold; no row is processed and storage is not changed.
C3_MissingTargetReported ==
    \A s \in Sessions :
        Ended(s) /\ stmt[s].body = "Values" /\ ~table_ex =>
            /\ msgs[s] = <<IF schema_ex THEN TableDoesNotExist ELSE SchemaDoesNotExist>>
            /\ row_index[s] = 0
            /\ inserted[s] = <<>>
            /\ table_rows = <<>>
            /\ key_id_generator = 0

C5_AllViolationsReported ==
    \A s \in Sessions :
        Ended(s) /\ pc[s] # "done_err" /\ table_ex /\ stmt[s].body = "Values"
            /\ AllResolve(s) /\ Unresolved(s) = <<>> =>
            \A l \in 1..Len(stmt[s].values) :
                FirstFailing(s, l) /\ ~WideLine(s, l) /\ ViolatingCells(s, l) # {} =>
                    /\ Len(msgs[s]) = 1
                    /\ msgs[s][1].kind = "ConstraintViolations"
                    /\ Len(msgs[s][1].violations) = Cardinality(ViolatingCells(s, l))
                    /\ \A n \in 1..Len(msgs[s][1].violations) :
                          /\ msgs[s][1].violations[n].row_index = l
                          /\ \E i \in ViolatingCells(s, l) :
                                msgs[s][1].violations[n].column =
                                    TableColumnDefs[TargetPosition(s, i)].name
                    /\ NothingCommitted(s)

\* C6: a column list with names that are no column of the existing table ends
\* the statement with one ColumnDoesNotExist naming exactly those names, no
\* key allocated, no row validated, nothing committed.
C6_ColumnNotFoundReported ==
    \A s \in Sessions :
        Ended(s) /\ pc[s] # "done_err" /\ table_ex /\ stmt[s].body = "Values"
            /\ Unresolved(s) # <<>> =>
                /\ msgs[s] = <<ColumnDoesNotExist(Unresolved(s))>>
                /\ key_log = <<>>
                /\ row_index[s] = 0
                /\ NothingCommitted(s)

\* C7: every record handed to insert_into is as wide as the table, holds
\* each cell of its line at the position of the cell's column and null
\* everywhere else; no cell is dropped or overwritten.
C7_RowMaterialization ==
    \A s \in Sessions :
        \A c \in 1..Len(inserted[s]) :
            \A j \in 1..Len(inserted[s][c].batch) :
                LET rec == inserted[s][c].batch[j].values
                    row == RowOf(s, j)
                IN  /\ Len(rec) = NumCols
                    /\ \A i \in 1..Len(row) :
                          /\ TargetPosition(s, i) # 0
                          /\ rec[TargetPosition(s, i)] = DatumFrom(row[i])
                    /\ \A q \in 1..NumCols :
                          (\A i \in 1..Len(row) : TargetPosition(s, i) # q) =>
                              rec[q] = DatumNull

\* C8: insert_into is called at most once for a statement, only with one
\* record per value-list line, and RecordsInserted carries the count storage
\* returned, also while other sessions drop and create the schema and table.
C8_CommitStep ==
    \A s \in Sessions :
        /\ Len(inserted[s]) <= 1
        /\ \A c \in 1..Len(inserted[s]) :
              Len(inserted[s][c].batch) = Len(stmt[s].values)
        /\ pc[s] = "done_ok" /\ inserted[s] # <<>> =>
              msgs[s] = <<RecordsInserted(size[s])>>

KeyOf(rec) == FromBeBytes(rec.key)

\* C9: the j-th record of a statement's batch is built from its j-th line,
\* the keys of the batch increase strictly, next_key_id returns strictly
\* increasing values across all sessions, and no two records share a key.
C9_OrderAndKeys ==
    /\ \A s \in Sessions :
          /\ \A j \in 1..Len(to_write[s]) :
                to_write[s][j].values = Built(s, rows[s][j]).record
          /\ \A j \in 1..Len(to_write[s]) : \A k \in 1..Len(to_write[s]) :
                j < k => KeyOf(to_write[s][j]) < KeyOf(to_write[s][k])
          /\ \A c \in 1..Len(inserted[s]) : inserted[s][c].batch = to_write[s]
    /\ \A i \in 1..Len(key_log) : \A j \in 1..Len(key_log) :
          i < j => key_log[i].id < key_log[j].id
    /\ \A s \in Sessions : \A t \in Sessions :
          \A j \in 1..Len(to_write[s]) : \A k \in 1..Len(to_write[t]) :
              (s # t \/ j # k) => to_write[s][j].key # to_write[t][k].key

\* Two statements each committed two records, and the keys of one of them
\* are not contiguous because the other allocated in between.
C9_Witness ==
    /\ \A s \in Sessions :
          Len(inserted[s]) = 1 /\ inserted[s][1].ok /\ Len(inserted[s][1].batch) = 2
    /\ \E s \in Sessions :
          KeyOf(inserted[s][1].batch[2]) > KeyOf(inserted[s][1].batch[1]) + 1
    /\ \E s \in Sessions :
          inserted[s][1].batch[1].values # inserted[s][1].batch[2].values

TrueFalse == { <<"t", "r", "u", "e">>, <<"f", "a", "l", "s", "e">> }

\* The expressions the resolver is to reject with a diagnostic.
Rejected(expr) ==
    \/ /\ expr.shape = "Cast"
       /\ ~(expr.value.type = "Boolean" /\ expr.data_type = "Boolean")
       /\ ~(expr.value.type = "SingleQuotedString" /\ expr.data_type = "Boolean"
              /\ expr.value.str \in TrueFalse)
    \/ /\ expr.shape = "UnaryOp"
       /\ ~(expr.op = "Minus" /\ expr.value.type = "Number")
    \/ expr.shape \notin {"Value", "Cast", "UnaryOp", "BinaryOp"}

\* The first cell that does not resolve is one the resolver is to reject.
RejectedFirst(s) ==
    LET cells == Flatten(stmt[s].values) IN
    \E n \in 1..Len(cells) :
        /\ Rejected(cells[n])
        /\ \A m \in 1..(n - 1) : ~Rejected(cells[m]) /\ ResolveCell(cells[m]).status = "ok"

\* C10: every failure of the scalar resolver ends the statement with exactly
\* one syntax-error diagnostic, execute() returning Ok and nothing written.
C10_ResolverFailureReported ==
    \A s \in Sessions :
        stmt[s].body = "Values" /\ RejectedFirst(s) /\ pc[s] \notin {"start", "resolve"} =>
            /\ pc[s] = "done_ok"
            /\ Len(msgs[s]) = 1
            /\ msgs[s][1].kind = "SyntaxError" /\ msgs[s][1].by = "core"
            /\ NothingCommitted(s)

\* ---- C11
Last(seq) == seq[Len(seq)]

CommitFailed(s) ==
    \E i \in 1..Len(calls[s]) : calls[s][i].op = "insert_into" /\ calls[s][i].res # "Ok"

StorageFailed(s) == \E i \in 1..Len(calls[s]) : calls[s][i].res # "Ok"

\* C11 as stated: execute() returns a failure exactly when the commit
\* failed; the failure returned is the backend's and the core sent nothing;
\* every other execution that returns, returns Ok with its outcome sent.
C11_FailureIffCommitFails ==
    \A s \in Sessions :
        Returned(s) =>
            /\ pc[s] = "done_err" <=> CommitFailed(s)
            /\ pc[s] = "done_err" =>
                  returned[s] = Last(calls[s]).res /\ CoreMsgs(s) = <<>>
            /\ pc[s] = "done_ok" => Len(msgs[s]) = 1

\* C11 as amended: execute() has returned a failure exactly when a storage
\* call (the column lookup or the commit) failed; it is that call's failure,
\* unchanged, that call was the last one made, and no message was sent; an
\* execution that returns Ok has sent its outcome, or left the report to the
\* evaluator that failed.
C11_FailureIffStorageCallFails ==
    \A s \in Sessions :
        /\ pc[s] = "done_err" <=> StorageFailed(s)
        /\ pc[s] = "done_err" =>
              /\ Last(calls[s]).op \in {"table_columns", "insert_into"}
              /\ Last(calls[s]).res \in BackendErrors
              /\ returned[s] = Last(calls[s]).res
              /\ msgs[s] = <<>>
        /\ pc[s] # "done_err" => returned[s] = NoError
        /\ pc[s] = "done_ok" => (Len(CoreMsgs(s)) = 1) # EvaluatorFailedFirst(s)

\* The column lookup failed and its failure was returned, nothing sent.
C11_Witness ==
    \E s \in Sessions :
        /\ pc[s] = "done_err"
        /\ Last(calls[s]).op = "table_columns"
        /\ returned[s] = "error_2"
        /\ inserted[s] = <<>>

\* ---- C12
\* The position, among the cells of the statement, of the cell the
\* evaluator fails on, and the line that cell stands in.
FirstUnresolvedCell(s) ==
    LET all == Flatten(stmt[s].values) IN
    CHOOSE n \in 1..Len(all) :
        /\ all[n].shape = "BinaryOp" /\ ~Eval(all[n]).ok
        /\ \A m \in 1..(n - 1) : ResolveCell(all[m]).status = "ok"

RECURSIVE CellsUpTo(_, _)
CellsUpTo(lines, l) == IF l = 0 THEN 0 ELSE Len(lines[l]) + CellsUpTo(lines, l - 1)

FirstUnresolvedLine(s) ==
    CHOOSE l \in 1..Len(stmt[s].values) :
        /\ CellsUpTo(stmt[s].values, l - 1) < FirstUnresolvedCell(s)
        /\ FirstUnresolvedCell(s) <= CellsUpTo(stmt[s].values, l)

\* C12: when the evaluator fails on a binary-operator cell, no cell after
\* that cell and no line after its line is resolved, the core sends no
\* message, no storage call is made (no existence check, no key, no insert),
\* and execute() returns Ok.
C12_EvaluatorFailureAbortsSilently ==
    \A s \in Sessions :
        EvaluatorFailedFirst(s) =>
            /\ cells_seen[s] <= FirstUnresolvedCell(s)
            /\ Len(rows[s]) < FirstUnresolvedLine(s)
            /\ CoreMsgs(s) = <<>>
            /\ calls[s] = <<>>
            /\ inserted[s] = <<>>
            /\ \A j \in 1..Len(key_log) : key_log[j].session # s
            /\ pc[s] \in {"start", "resolve", "done_ok"}
            /\ lock # s
            /\ Ended(s) => /\ pc[s] = "done_ok"
                           /\ returned[s] = NoError
                           /\ cells_seen[s] = FirstUnresolvedCell(s)

\* The evaluator failed on a cell that a cell and a line follow; the
\* statement has ended.
C12_Witness ==
    \E s \in Sessions :
        /\ EvaluatorFailedFirst(s)
        /\ pc[s] = "done_ok"
        /\ Len(stmt[s].values) = 2
        /\ Len(stmt[s].values[1]) = 2
        /\ FirstUnresolvedCell(s) = 1
        /\ cells_seen[s] = 1

\* ---- C14
\* The diagnostic line l meets when it is taken alone through resolve,
\* materialize and validate, in that order; "-" when it meets none.
LineDiagnostic(s, l) ==
    IF ResolveLine(stmt[s].values[l]).status # "ok" THEN "SyntaxError"
    ELSE IF WideLine(s, l) THEN "TooManyInsertExpressions"
    ELSE IF ViolatingCells(s, l) # {} THEN "ConstraintViolations"
    ELSE "-"

LineFails(s, l) == LineDiagnostic(s, l) # "-"

\* No cell of the statement makes the resolver or the row loop crash, and
\* none is left to the evaluator to report.
NoCrashNoEvaluator(s) ==
    \A l \in 1..Len(stmt[s].values) :
        /\ ResolveLine(stmt[s].values[l]).status \in {"ok", "syntax"}
        /\ CrashingCells(s, l) = {}

EarliestFailing(s) ==
    CHOOSE l \in 1..Len(stmt[s].values) :
        LineFails(s, l) /\ \A k \in 1..(l - 1) : ~LineFails(s, k)

\* C14: when value-list lines of a statement on an existing table fail, the
\* one diagnostic sent is that of the earliest failing line in statement
\* order, and no line after that line is processed (neither resolved nor
\* validated).
C14_FirstFailureOrder ==
    \A s \in Sessions :
        pc[s] = "done_ok" /\ stmt[s].body = "Values" /\ table_ex
            /\ Unresolved(s) = <<>> /\ NoCrashNoEvaluator(s)
            /\ (\E l \in 1..Len(stmt[s].values) : LineFails(s, l)) =>
                /\ Len(msgs[s]) = 1
                /\ msgs[s][1].kind = LineDiagnostic(s, EarliestFailing(s))
                /\ Len(rows[s]) <= EarliestFailing(s)
                /\ row_index[s] < EarliestFailing(s)

\* ---- C15
\* The number of surrogate keys the statement of session s has taken.
KeysOf(s) == Cardinality({ j \in 1..Len(key_log) : key_log[j].session = s })

\* Line l fits the table and none of its supplied cells violates a constraint.
PassesValidation(s, l) == ~WideLine(s, l) /\ ViolatingCells(s, l) = {}

\* C15: next_key_id is called for a line only after the line passed
\* validation: while a line is still to be validated its key has not been
\* taken, and the keys taken are no more than the lines that passed; a line
\* that fails validation or the width check consumes no key.
C15_KeyAfterValidation ==
    \A s \in Sessions :
        /\ pc[s] = "validate" => KeysOf(s) <= row_index[s]
        /\ \A l \in 1..Len(stmt[s].values) :
              l <= KeysOf(s) => PassesValidation(s, l)

\* ---- C13
BackendLabels == {"schema_exists", "table_exists", "table_columns", "table_exists_again",
                  "next_key_id", "insert_into"}

\* The session is inside a storage call.
InBackend(s) == pc[s] \in BackendLabels

\* C13: a session holds the storage lock exactly while it is inside one of
\* its storage calls (the lock is taken for the call and released when the
\* call returns), the lock is free between two consecutive calls of one
\* statement, and at most one session is inside the backend at any time.
C13_LockDiscipline ==
    /\ \A s \in Sessions : lock = s <=> InBackend(s)
    /\ \A s \in Sessions : pc[s] \in LockLabels => lock # s
    /\ Cardinality({ s \in Sessions : InBackend(s) }) <= 1

\* ---- C16
\* C16: every execution of a statement eventually returns, having sent a
\* diagnostic or made the commit call; it neither stays blocked on the
\* storage lock nor ends in a crash.
C16_Termination ==
    \A s \in Sessions : pc[s] = "start" ~> Returned(s)

\* ---- C17
\* C17: whenever a statement sends a message to the client sink, it does
\* not hold the storage lock across that send.
C17_NoLockWhileSending ==
    [][\A s \in Sessions : msgs'[s] # msgs[s] => ~(lock = s /\ lock' = s)]_vars

====
